---- MODULE Spec2Model ----
(***************************************************************************)
(* State-machine model of the rsc-engine build orchestrator                *)
(* (setupClientComponentsBase / setupClientComponents).                    *)
(*                                                                         *)
(* One orchestration run is a process whose steps are the awaited parts of *)
(* setupClientComponentsBase; the hot-reload listener and the runtime      *)
(* queries are further processes that wait on the `result` promise.        *)
(***************************************************************************)
EXTENDS Integers, Sequences, FiniteSets, TLC

\* ------------------------------------------------------------------ bounds
\* inputs the environment delivers in one behaviour: hot-reload events,
\* changes to the sources or to deno.json, runtime queries
MaxStimuli == 2

\* every event starts at most one run, plus the initial run
MaxRuns == MaxStimuli + 1
RunIds == 1..MaxRuns

\* ------------------------------------------------------------- the project
\* manifest.basePath ?? "default"
BasePath == "default"
\* manifest.entryPoint, manifest.bootstrapModules, manifest.external
EntryPoint == "main"
BootstrapModules == <<"boot">>
External == <<>>

\* the module graphs the project can have (what `info` reports)
Shapes == {"s1", "s2", "s3", "s4", "s5", "s6"}
\* local files whose content / mtime the environment changes
Files == {"B", "S"}

\* dependencies of module m (declaration order) in graph sh
DepsOf(sh, m) ==
  CASE m = "main" /\ sh = "s2" -> <<"B", "C">>
    [] m = "main" /\ sh = "s4" -> <<"S", "E", "W", "R">>
    [] m = "main" /\ sh = "s5" -> <<"D", "C">>
    [] m = "main" /\ sh = "s6" -> <<"B", "U">>
    [] m = "main" /\ sh \notin {"s2", "s4", "s5", "s6"} -> <<"B">>
    [] m = "boot" /\ sh = "s4" -> <<"W">>
    [] m = "B" /\ sh = "s3" -> <<"S">>
    [] m = "S" /\ sh = "s4" -> <<"B">>
    [] OTHER -> <<>>

\* the characters of the directives
Quote == "\""
UseClient == <<"u", "s", "e", " ", "c", "l", "i", "e", "n", "t">>
UseServer == <<"u", "s", "e", " ", "s", "e", "r", "v", "e", "r">>
Whitespace == {" ", "\n", "\t"}

\* the first characters of the source of module m; W starts with a blank line
Prologue(m) ==
  CASE m \in {"B", "C", "D"} -> <<Quote>> \o UseClient \o <<Quote, ";", "\n">>
    [] m = "S" -> <<Quote>> \o UseServer \o <<Quote, ";", "\n">>
    [] m = "W" -> <<"\n", Quote>> \o UseClient \o <<Quote, ";", "\n">>
    [] OTHER -> <<"i", "m", "p", "o", "r", "t", " ", "x", ";", "\n">>

\* fetch(specifier) gives a response with a body; the source of E cannot be
\* obtained
Fetchable(m) == m # "E"

\* --------------------------------------------------------- sequence helpers
RECURSIVE Concat(_)
Concat(ss) == IF ss = <<>> THEN <<>> ELSE Head(ss) \o Concat(Tail(ss))

Range(s) == {s[i] : i \in 1..Len(s)}

\* ------------------------------------------------- module graph and scopes
\* info(entryPoint).modules: the modules reachable from m, discovery order
RECURSIVE info(_, _)
info(sh, m) ==
  <<m>> \o Concat([i \in 1..Len(DepsOf(sh, m)) |-> info(sh, DepsOf(sh, m)[i])])

\* reader.read(new Uint8Array(11)): the bytes the classifier looks at
PrologueBytes == 11

\* String.prototype.trim
RECURSIVE trimStart(_)
trimStart(s) ==
  IF s # <<>> /\ Head(s) \in Whitespace THEN trimStart(Tail(s)) ELSE s
RECURSIVE trimEnd(_)
trimEnd(s) ==
  IF s # <<>> /\ s[Len(s)] \in Whitespace THEN trimEnd(SubSeq(s, 1, Len(s) - 1)) ELSE s
trim(s) == trimEnd(trimStart(s))

\* String.prototype.slice(from, to) for 0 <= from <= to
slice(s, from, to) ==
  SubSeq(s, from + 1, IF to < Len(s) THEN to ELSE Len(s))

\* getUseDirective
getUseDirective(m) ==
  IF ~Fetchable(m) THEN "error"
  ELSE LET value == slice(Prologue(m), 0, PrologueBytes)
           directive == slice(trim(value), 1, 11)
       IN IF directive = UseClient THEN "client"
          ELSE IF directive = UseServer THEN "server"
          ELSE "default"

\* relativeReferencesRegex.test(module.specifier): R is a reference module
\* generated by the build of another profile
underReferences(m) == m = "R"

\* the module list without the filter on generated reference modules
modulesUnfiltered(sh) ==
  Concat([i \in 1..(1 + Len(BootstrapModules)) |->
            info(sh, (<<EntryPoint>> \o BootstrapModules)[i])])

\* modules: moduleInfos.flatMap(info => info.modules) without the modules
\* under a reference directory
modules(sh) ==
  SelectSeq(Concat([i \in 1..(1 + Len(BootstrapModules)) |->
                      info(sh, (<<EntryPoint>> \o BootstrapModules)[i])]),
            LAMBDA m : ~underReferences(m))

\* the directive attached to each module of `modules`
Modules == {"main", "boot", "B", "C", "D", "S", "E", "W", "R", "U"}
Directives == [m \in Modules |-> getUseDirective(m)]

\* the dependencies of one owner with every module reachable from them
scopeDependenciesTransitive(classified, sh, owner) ==
  LET deps == Concat([i \in 1..Len(DepsOf(sh, owner)) |->
                        info(sh, DepsOf(sh, owner)[i])])
      all == [i \in 1..Len(deps) |->
                [scope |-> owner, dependency |-> deps[i], module |-> deps[i],
                 directive |-> classified[deps[i]]]]
  IN SelectSeq(all, LAMBDA v : v.directive \in {"client", "server"})

\* the boundary edges of one owner module: its dependencies whose module is
\* found in `modules` with directive client or server
scopeDependencies(classified, sh, owner) ==
  LET deps == DepsOf(sh, owner)
      all == [i \in 1..Len(deps) |->
                [scope |-> owner, dependency |-> deps[i], module |-> deps[i],
                 directive |-> IF deps[i] \in Range(modules(sh))
                                 THEN classified[deps[i]] ELSE "undefined"]]
  IN SelectSeq(all, LAMBDA v : v.directive \in {"client", "server"})

\* scopesWithDependencies.flatMap(scope => scope.dependencies), from the
\* modules of graph sh classified as in `classified`
scopesWithDependencies(classified, sh) ==
  LET owners == SelectSeq(modules(sh), LAMBDA m : classified[m] # "client")
  IN Concat([i \in 1..Len(owners) |-> scopeDependencies(classified, sh, owners[i])])

\* the targets of all boundary edges, server ones included
entryPointModulesOfEveryEdge(sh) ==
  [i \in 1..Len(scopesWithDependencies(Directives, sh)) |->
     scopesWithDependencies(Directives, sh)[i].module]

\* entryPointModules
entryPointModules(sh) ==
  LET es == SelectSeq(scopesWithDependencies(Directives, sh),
                      LAMBDA e : e.directive = "client")
  IN [i \in 1..Len(es) |-> es[i].module]

\* the entry points of the server-only build
serverEntryPoints(classified, sh) ==
  SelectSeq(modules(sh), LAMBDA m : classified[m] = "server")

\* entryPoints
entryPoints(sh) == BootstrapModules \o entryPointModules(sh) \o External

\* the analysis of each graph, computed once
Analysis ==
  [sh \in Shapes |->
     [modules |-> modules(sh),
      edges |-> scopesWithDependencies(Directives, sh),
      serverEntryPoints |-> serverEntryPoints(Directives, sh),
      entryPoints |-> entryPoints(sh),
      info |-> [m \in Modules |-> info(sh, m)]]]
moduleSpecifiers(sh) == Analysis[sh].modules
boundaryEdges(sh) == Analysis[sh].edges
requiredEntryPoints(sh) == Analysis[sh].entryPoints
reachableFrom(sh, m) == Analysis[sh].info[m]

\* --------------------------------------------------------------- variables
VARIABLES
  shape,                \* the module graph of the sources on disk
  content,              \* content version of each editable source file
  mtime,                \* modification time of each editable source file
  stimuli,              \* number of inputs the environment delivered so far
  changes,              \* number of changes to the sources or to deno.json
  withWritePermission,  \* write permission on cwd (esbuild loaded iff TRUE)
  snapshotFile,         \* build/<basePath>/snapshot.json: <<>> or <<snapshot>>
  importMapFile,        \* deno.json: [scopes, rscUpdateId]
  refDir,               \* build/<basePath>/references: set of [name, body]
  outDir,               \* build/<basePath>/es: set of bundle paths
  state,                \* the state object shared by the runs of one setup
  runs,                 \* the orchestration runs (promises)
  result,               \* `result` of setupClientComponents: the current run
  listeners,            \* invocations of the hmr listener, by event order
  dispatched,           \* hmrRebuildEventName events dispatched
  surface,              \* the promise returned by setupClientComponents
  query,                \* the runtime query in flight
  answers,              \* what the runtime queries resolved with so far
  stream,               \* one PathTransformStream and the bytes piped through it
  http,                 \* one client call to the renderer and its redirects
  hashed                \* history: <<graph and content, decision hash>> of the runs

vars ==
  <<shape, content, mtime, stimuli, changes, withWritePermission, snapshotFile,
    importMapFile, refDir, outDir, state, runs, result, listeners,
    dispatched, surface, query, answers, stream, http, hashed>>

worldVars == <<shape, content, mtime, stimuli, changes>>
diskVars == <<snapshotFile, importMapFile, refDir, outDir>>
hmrVars == <<listeners, dispatched>>
queryVars == <<surface, query, answers, stream, http>>

\* the sources a decision hash was computed from
sourceContent(w) == [shape |-> w.shape, content |-> w.content]

\* ------------------------------------------------------- files and bundler
\* a view of the sources at one moment
World == [shape |-> shape, content |-> content, mtime |-> mtime]

\* the file holding module m: D is the file of B after it was renamed
FileOf(m) == IF m = "D" THEN "B" ELSE m

ContentOf(w, m) == IF FileOf(m) \in Files THEN w.content[FileOf(m)] ELSE 0
MtimeOf(w, m) == IF FileOf(m) \in Files THEN w.mtime[FileOf(m)] ELSE 0

\* Deno.stat(local).then(calculate): the etag of a FileInfo is made of its
\* size and its mtime
calculate(w, m) == <<ContentOf(w, m), MtimeOf(w, m)>>

\* exported symbol names of module m as the bundler's metafile reports them
exportsOf(w, m) ==
  IF ContentOf(w, m) % 2 = 0 THEN <<"default">> ELSE <<"default", "Foo">>

\* esbuild.build over the modules with directive server (write: false)
esbuildServerBuild(w) ==
  LET ms == Analysis[w.shape].serverEntryPoints
  IN [i \in 1..Len(ms) |->
        [path |-> <<ms[i], <<>>>>, entryPoint |-> ms[i],
         exports |-> exportsOf(w, ms[i])]]

\* entryInfos: etags of the local modules reachable from the entry points
entryInfos(w) ==
  LET eps == requiredEntryPoints(w.shape)
      ms == Concat([i \in 1..Len(eps) |-> reachableFrom(w.shape, eps[i])])
  IN [i \in 1..Len(ms) |-> calculate(w, ms[i])]

\* getHashSync(JSON.stringify({entryInfos, exports}))
decisionHash(w) ==
  [entryInfos |-> entryInfos(w),
   exports |-> esbuildServerBuild(w)]

\* one output of the incremental build: "[name]-[hash]" of the bundle of e
bundleOf(w, e) ==
  LET ms == reachableFrom(w.shape, e)
  IN [path |-> <<e, [i \in 1..Len(ms) |-> ContentOf(w, ms[i])]>>,
      entryPoint |-> e,
      exports |-> exportsOf(w, e)]

\* context.rebuild(): the outputs of the context's own entry points
rebuildOutputs(w, ctx) == {bundleOf(w, e) : e \in ctx.entryPoints}

\* generated reference file / proxy file of a boundary module
referenceFile(m) == <<"ref", BasePath, m>>
proxyFile(m) == <<"proxy", BasePath, m>>

\* v.includes(relativeReferenceDirectory)
underReferenceDirectory(target) == target[1] = "ref" /\ target[2] = BasePath

\* createRemoveReferences(relativeReferenceDirectory)
cleanReferences(scopes) == {e \in scopes : ~underReferenceDirectory(e.target)}

\* newScopes: scope -> import key -> reference path
newScopes(sh) ==
  {[scope |-> e.scope, key |-> e.dependency, target |-> referenceFile(e.module)] :
     e \in Range(boundaryEdges(sh))}

\* localImportMap.scopes[relscope]?.[moduleKey] === relativeOutputFilePath
entryPresent(scopes, e) ==
  [scope |-> e.scope, key |-> e.dependency, target |-> referenceFile(e.module)]
    \in scopes

\* isPresentInJson compared with the proxy path instead of the reference path
isPresentInJsonProxyPath(scopes, sh) ==
  LET es == boundaryEdges(sh)
  IN IF es = <<>> THEN TRUE
     ELSE [scope |-> es[Len(es)].scope, key |-> es[Len(es)].dependency,
           target |-> proxyFile(es[Len(es)].module)] \in scopes

\* isPresentInJson after the reduce over the boundary edges: the assignment
\* in the reducer overwrites the variable at every edge
isPresentInJson(scopes, sh) ==
  LET es == boundaryEdges(sh)
  IN IF es = <<>> THEN TRUE ELSE entryPresent(scopes, es[Len(es)])

\* ----------------------------------------------- products of a full build
\* one boundary edge's output: the server build's for a server module, the
\* incremental build's otherwise; <<>> when .find(...) finds nothing
outputOfEdge(e, serverResult, buildResult) ==
  IF e.directive = "server"
    THEN SelectSeq(serverResult, LAMBDA o : o.entryPoint = e.module)
    ELSE LET found == {o \in buildResult : o.entryPoint = e.module}
         IN IF found = {} THEN <<>> ELSE <<CHOOSE o \in found : TRUE>>

\* writeTextFileIfDifferent on a directory modelled as a set of [name, body]
writeTextFileIfDifferent(dir, name, body) ==
  {f \in dir : f.name # name} \cup {[name |-> name, body |-> body]}

\* the proxy and the reference file written for the edges es[1..n]
RECURSIVE writeReferences(_, _, _, _, _)
writeReferences(dir, es, n, serverResult, buildResult) ==
  IF n = 0 THEN dir
  ELSE LET before == writeReferences(dir, es, n - 1, serverResult, buildResult)
           e == es[n]
           out == outputOfEdge(e, serverResult, buildResult)
           body == <<e.directive, out[1].exports>>
       IN writeTextFileIfDifferent(
            writeTextFileIfDifferent(before, proxyFile(e.module), out[1].exports),
            referenceFile(e.module), body)

\* toKeep
toKeep(es) ==
  {proxyFile(es[i].module) : i \in 1..Len(es)} \cup
  {referenceFile(es[i].module) : i \in 1..Len(es)}

\* notExistingYet: reference files that were not on disk when their edge
\* was processed
notExistingYet(dir, es) ==
  {referenceFile(es[i].module) : i \in 1..Len(es)} \ {f.name : f \in dir}

\* outputMappings: the reducer stores each edge under the key [scope]
RECURSIVE outputMappings(_, _, _, _)
outputMappings(es, n, serverResult, buildResult) ==
  IF n = 0 THEN {}
  ELSE LET before == outputMappings(es, n - 1, serverResult, buildResult)
           out == outputOfEdge(es[n], serverResult, buildResult)
       IN {x \in before : x.key # es[n].scope} \cup
          {[key |-> es[n].scope, outputPath |-> out[1].path]}

\* the merge replacing the whole table with the scopes of this run
updateImportMapReplacingTable(data, sh, notYet) ==
  [scopes |-> newScopes(sh), rscUpdateId |-> data.rscUpdateId]

\* the update that never stamps a new rscUpdateId
updateImportMapWithoutStamp(data, sh, notYet) ==
  [scopes |-> {e \in cleanReferences(data.scopes) :
                 ~\E n \in newScopes(sh) : n.scope = e.scope /\ n.key = e.key}
                \cup newScopes(sh),
   rscUpdateId |-> data.rscUpdateId]

\* the update function given to updateJsonFileIfDifferent(localImportMapPath)
updateImportMap(data, sh, notYet) ==
  LET jsonReferencesCode ==
        {e.target : e \in {x \in data.scopes : x.target[2] = BasePath}}
      needRestartFiles == jsonReferencesCode \cap notYet
      new == newScopes(sh)
      kept == {e \in cleanReferences(data.scopes) :
                 ~\E n \in new : n.scope = e.scope /\ n.key = e.key}
  IN [scopes |-> kept \cup new,
      rscUpdateId |-> IF needRestartFiles # {} THEN data.rscUpdateId + 1
                      ELSE data.rscUpdateId]

\* removeExcept(dirPath, toKeep) on a directory of [name, body]
removeExcept(dir, keep) == {f \in dir : f.name \in keep}

\* locateModuleInBuild for the bootstrap modules; <<>> when one is not found
updatedBootstrapModules(buildResult) ==
  LET found(b) == {o \in buildResult : o.entryPoint = b}
  IN IF \E i \in 1..Len(BootstrapModules) : found(BootstrapModules[i]) = {}
       THEN <<>>
       ELSE <<[i \in 1..Len(BootstrapModules) |->
                 (CHOOSE o \in found(BootstrapModules[i]) : TRUE).path]>>

\* the object handed to updateJsonFileIfDifferent(snapshotPath)
newSnapshot(w, serverResult, buildResult) ==
  LET es == boundaryEdges(w.shape)
  IN [locals |-> moduleSpecifiers(w.shape),
      hash |-> decisionHash(w),
      updatedBootstrapModules |-> updatedBootstrapModules(buildResult)[1],
      outputMappings |-> outputMappings(es, Len(es), serverResult, buildResult)]

\* ------------------------------------------------------------ initial state
\* deno.json before any build: hand-written entries and entries of another
\* build profile, one of them for an import this profile remaps as well
ForeignScopes ==
  {[scope |-> "main", key |-> "lib", target |-> <<"foreign", "vendor", "lib">>],
   [scope |-> "vendor", key |-> "lib", target |-> <<"foreign", "vendor", "lib">>],
   [scope |-> "main", key |-> "X", target |-> <<"ref", "other", "X">>],
   [scope |-> "main", key |-> "B", target |-> <<"ref", "other", "B">>]}

ColdImportMap == [scopes |-> ForeignScopes, rscUpdateId |-> 0]

\* a file in build/<basePath>/references that no run generated
ForeignFile == [name |-> <<"foreign", "notes">>, body |-> <<>>]

NoEffects ==
  [serverBuilds |-> 0, rebuilds |-> 0, contexts |-> 0,
   wrote |-> FALSE, deleted |-> FALSE, generated |-> FALSE,
   wroteImportMap |-> FALSE, wroteSnapshot |-> FALSE]

\* a run that has not been started
IdleRun ==
  [pc |-> "idle", kind |-> "none", snapshot |-> <<>>, localImportMap |-> {},
   w |-> <<>>, useCacheContext |-> FALSE, esbuildResult |-> {},
   notExistingYet |-> {}, ret |-> <<>>, fx |-> NoEffects, alone |-> TRUE]

InitialWorld(sh) ==
  [shape |-> sh, content |-> [f \in Files |-> 0], mtime |-> [f \in Files |-> 0]]

\* the disk a completed full build of the sources w leaves behind
BuiltOutputs(w) ==
  rebuildOutputs(w, [entryPoints |-> Range(requiredEntryPoints(w.shape)), disposed |-> FALSE])
BuiltSnapshot(w) == newSnapshot(w, esbuildServerBuild(w), BuiltOutputs(w))
BuiltReferences(w) ==
  LET es == boundaryEdges(w.shape)
  IN writeReferences({}, es, Len(es), esbuildServerBuild(w), BuiltOutputs(w))
BuiltImportMap(w) ==
  updateImportMap(ColdImportMap, w.shape,
                  notExistingYet({}, boundaryEdges(w.shape)))

BuildInit ==
  /\ shape \in Shapes
  /\ content = [f \in Files |-> 0]
  /\ mtime = [f \in Files |-> 0]
  /\ stimuli = 0
  /\ changes = 0
  /\ withWritePermission \in BOOLEAN
  /\ \/ /\ snapshotFile = <<>>
        /\ importMapFile = ColdImportMap
        /\ refDir = {ForeignFile}
        /\ outDir = {}
        /\ hashed = {}
     \/ /\ snapshotFile = <<BuiltSnapshot(InitialWorld(shape))>>
        /\ importMapFile = BuiltImportMap(InitialWorld(shape))
        /\ refDir = BuiltReferences(InitialWorld(shape)) \cup {ForeignFile}
        /\ outDir = {o.path : o \in BuiltOutputs(InitialWorld(shape))}
        /\ hashed = {<<sourceContent(InitialWorld(shape)),
                       decisionHash(InitialWorld(shape))>>}
     \/ /\ shape = "s1"
        /\ snapshotFile = <<>>
        /\ importMapFile = BuiltImportMap(InitialWorld(shape))
        /\ refDir = {ForeignFile}
        /\ outDir = {}
        /\ hashed = {}
  /\ state = [entryPoints |-> <<>>, esbuildContext |-> <<>>]
  /\ runs = [r \in RunIds |-> IF r = 1 THEN [IdleRun EXCEPT !.pc = "start"]
                              ELSE IdleRun]
  /\ result = 1
  /\ listeners = <<>>
  /\ dispatched = 0
  /\ surface = "pending"
  /\ query = [pc |-> "idle", kind |-> "none", on |-> 0]
  /\ answers = {}

\* no response is being streamed
IdleStream ==
  [pc |-> "idle", input |-> <<>>, rest |-> <<>>,
   undecoded |-> <<>>, pendingChunk |-> <<>>, out |-> <<>>]

\* no request is being handled
IdleHttp == [pc |-> "idle"]

Init == BuildInit /\ stream = IdleStream /\ http = IdleHttp

\* ------------------------------------------------------ promises and tasks
Settled(r) == runs[r].pc \in {"fulfilled", "rejected"}
InFlight(r) == runs[r].pc \notin {"idle", "fulfilled", "rejected"}

\* continuations of `await result` that are ready to run: they run before
\* any further I/O completion or event is handled
ListenerReady(i) ==
  /\ listeners[i].pc \in {"awaitResult", "awaitRebuild"}
  /\ Settled(listeners[i].on)
SurfaceReady == surface = "pending" /\ (withWritePermission => Settled(1))
QueryReady == query.pc = "waiting" /\ Settled(query.on)
MicrotaskPending ==
  \/ SurfaceReady
  \/ QueryReady
  \/ \E i \in 1..Len(listeners) : ListenerReady(i)

\* the promise of run r settles
Fulfil(run, fx, kind, value) ==
  [IdleRun EXCEPT !.pc = "fulfilled", !.kind = kind, !.ret = <<value>>, !.fx = fx,
                  !.snapshot = run.snapshot, !.alone = run.alone]
Reject(run, fx, kind) ==
  [IdleRun EXCEPT !.pc = "rejected", !.kind = kind, !.fx = fx,
                  !.snapshot = run.snapshot, !.alone = run.alone]

\* ------------------------------------------- setupClientComponentsBase
\* the run going on to the analysis whether or not esbuild was loaded
RunReadIgnoresPermission(r) ==
  /\ runs[r].pc = "start"
  /\ ~MicrotaskPending
  /\ runs' = [runs EXCEPT ![r] = [@ EXCEPT !.pc = "analyse",
                                          !.snapshot = snapshotFile,
                                          !.localImportMap = importMapFile.scopes]]
  /\ UNCHANGED <<worldVars, withWritePermission, hashed, diskVars, state, result,
                 hmrVars, queryVars>>

\* reads deno.json and the snapshot; without esbuild (no write permission)
\* the run ends here
RunRead(r) ==
  /\ runs[r].pc = "start"
  /\ ~MicrotaskPending
  /\ \/ /\ ~withWritePermission
        /\ snapshotFile = <<>>
        /\ runs' = [runs EXCEPT ![r] = Reject(@, @.fx, "readonly")]
     \/ /\ ~withWritePermission
        /\ snapshotFile # <<>>
        /\ runs' = [runs EXCEPT ![r] = Fulfil(@, @.fx, "readonly", snapshotFile[1])]
     \/ /\ withWritePermission
        /\ runs' = [runs EXCEPT ![r] = [@ EXCEPT !.pc = "analyse",
                                                !.snapshot = snapshotFile,
                                                !.localImportMap = importMapFile.scopes]]
  /\ UNCHANGED <<worldVars, withWritePermission, hashed, diskVars, state, result,
                 hmrVars, queryVars>>

\* new Set(entryPoints).symmetricDifference(new Set(state.entryPoints))
symmetricDifference(a, b) == (Range(a) \ Range(b)) \cup (Range(b) \ Range(a))

\* useCacheContext
useCacheContext(st, sh) ==
  /\ st.esbuildContext # <<>>
  /\ symmetricDifference(requiredEntryPoints(sh), st.entryPoints) = {}

\* state after `if (state.esbuildContext && !useCacheContext) dispose()`
disposeStale(st, sh) ==
  IF st.esbuildContext # <<>> /\ ~useCacheContext(st, sh)
    THEN [st EXCEPT !.esbuildContext = <<[@[1] EXCEPT !.disposed = TRUE]>>]
    ELSE st

\* if (isPresentInJson && snapshot?.hash === hash)
usesCachedSnapshot(run, w) ==
  /\ isPresentInJson(run.localImportMap, w.shape)
  /\ run.snapshot # <<>>
  /\ run.snapshot[1].hash = decisionHash(w)

\* the short-circuit returning a snapshot whose locals were dropped
cachedReturnWithoutLocals(run) == [run.snapshot[1] EXCEPT !.locals = <<>>]

\* return snapshot
cachedReturn(run) == run.snapshot[1]

\* module information, directives, stale-context check and the server-only
\* build; then the decision on the hash
RunAnalyse(r) ==
  LET run == runs[r]
      fx == [run.fx EXCEPT !.serverBuilds = @ + 1]
  IN /\ run.pc = "analyse"
     /\ ~MicrotaskPending
     /\ state' = disposeStale(state, shape)
     /\ hashed' = hashed \cup {<<sourceContent(World), decisionHash(World)>>}
     /\ \/ runs' = [runs EXCEPT ![r] = Reject(run, fx, "failed")]
        \/ /\ usesCachedSnapshot(run, World)
           /\ runs' = [runs EXCEPT ![r] = Fulfil(run, fx, "cached", cachedReturn(run))]
        \/ /\ ~usesCachedSnapshot(run, World)
           /\ runs' = [runs EXCEPT ![r] =
                 [run EXCEPT !.pc = "build", !.kind = "full", !.w = <<World>>,
                             !.useCacheContext = useCacheContext(state, shape),
                             !.fx = fx]]
     /\ UNCHANGED <<worldVars, withWritePermission, diskVars, result,
                    hmrVars, queryVars>>

\* the context the run rebuilds: the cached one or a new one
contextOf(run, st) ==
  IF run.useCacheContext THEN st.esbuildContext[1]
  ELSE [entryPoints |-> Range(requiredEntryPoints(run.w[1].shape)), disposed |-> FALSE]

\* context creation, rebuild, removeExcept(outputDirectory), bundle writes
RunBuild(r) ==
  LET run == runs[r]
      ctx == contextOf(run, state)
      outs == rebuildOutputs(World, ctx)
      paths == {o.path : o \in outs}
      fx == [run.fx EXCEPT !.rebuilds = @ + 1,
                           !.contexts = IF run.useCacheContext THEN @ ELSE @ + 1]
  IN /\ run.pc = "build"
     /\ ~MicrotaskPending
     /\ state' = [entryPoints |-> requiredEntryPoints(run.w[1].shape),
                  esbuildContext |-> <<ctx>>]
     /\ \/ /\ runs' = [runs EXCEPT ![r] = Reject(run, fx, "full")]
           /\ outDir' = outDir
        \/ /\ ~ctx.disposed
           /\ outDir' = paths
           /\ runs' = [runs EXCEPT ![r] =
                 [run EXCEPT !.pc = "refs", !.esbuildResult = outs,
                             !.fx = [fx EXCEPT !.wrote = @ \/ paths \ outDir # {},
                                               !.deleted = @ \/ outDir \ paths # {}]]]
        \/ /\ ~ctx.disposed
           /\ paths \ outDir # {}
           /\ outDir' = outDir \cap paths
           /\ runs' = [runs EXCEPT ![r] =
                 Reject(run, [fx EXCEPT !.deleted = @ \/ outDir \ paths # {}], "full")]
     /\ UNCHANGED <<worldVars, withWritePermission, hashed, snapshotFile, importMapFile,
                    refDir, result, hmrVars, queryVars>>

\* proxy and reference files of every boundary edge
RunRefs(r) ==
  LET run == runs[r]
      es == boundaryEdges(run.w[1].shape)
      srv == esbuildServerBuild(run.w[1])
      missing == \E i \in 1..Len(es) : outputOfEdge(es[i], srv, run.esbuildResult) = <<>>
      written(n) == writeReferences(refDir, es, n, srv, run.esbuildResult)
  IN /\ run.pc = "refs"
     /\ ~MicrotaskPending
     /\ \/ /\ missing
           /\ refDir' = refDir
           /\ runs' = [runs EXCEPT ![r] = Reject(run, run.fx, "full")]
        \/ /\ ~missing
           /\ refDir' = written(Len(es))
           /\ runs' = [runs EXCEPT ![r] =
                 [run EXCEPT !.pc = "importmap",
                             !.notExistingYet = notExistingYet(refDir, es),
                             !.fx = [@ EXCEPT !.generated = TRUE,
                                              !.wrote = @ \/ refDir' # refDir]]]
        \/ /\ ~missing
           /\ \E n \in 0..(Len(es) - 1) :
                /\ written(n + 1) # written(n)
                /\ refDir' = written(n)
                /\ runs' = [runs EXCEPT ![r] =
                      Reject(run, [run.fx EXCEPT !.generated = TRUE,
                                            !.wrote = @ \/ refDir' # refDir], "full")]
     /\ UNCHANGED <<worldVars, withWritePermission, hashed, snapshotFile, importMapFile,
                    outDir, state, result, hmrVars, queryVars>>

\* updateJsonFileIfDifferent(localImportMapPath, ...)
RunImportMap(r) ==
  LET run == runs[r]
      new == updateImportMap(importMapFile, run.w[1].shape, run.notExistingYet)
  IN /\ run.pc = "importmap"
     /\ ~MicrotaskPending
     /\ \/ /\ importMapFile' = new
           /\ runs' = [runs EXCEPT ![r] =
                 [run EXCEPT !.pc = "gc",
                             !.fx = [@ EXCEPT !.wrote = @ \/ new # importMapFile,
                                              !.wroteImportMap = @ \/ new # importMapFile]]]
        \/ /\ new # importMapFile
           /\ importMapFile' = importMapFile
           /\ runs' = [runs EXCEPT ![r] = Reject(run, run.fx, "full")]
     /\ UNCHANGED <<worldVars, withWritePermission, hashed, snapshotFile, refDir, outDir,
                    state, result, hmrVars, queryVars>>

\* the snapshot persisted before the stale references are removed
RunGcPersistsFirst(r) ==
  LET run == runs[r]
      kept == removeExcept(refDir, toKeep(boundaryEdges(run.w[1].shape)))
      snap == newSnapshot(run.w[1], esbuildServerBuild(run.w[1]), run.esbuildResult)
  IN /\ run.pc = "gc"
     /\ ~MicrotaskPending
     /\ updatedBootstrapModules(run.esbuildResult) # <<>>
     /\ snapshotFile' = <<snap>>
     /\ \/ /\ refDir' = kept
           /\ runs' = [runs EXCEPT ![r] =
                 [run EXCEPT !.pc = "persist",
                             !.fx = [@ EXCEPT !.deleted = @ \/ kept # refDir]]]
        \/ /\ kept # refDir
           /\ refDir' = refDir
           /\ runs' = [runs EXCEPT ![r] = Reject(run, run.fx, "full")]
     /\ UNCHANGED <<worldVars, withWritePermission, hashed, importMapFile,
                    outDir, state, result, hmrVars, queryVars>>

\* removeExcept(absoluteReferenceDirectory, toKeep)
RunGc(r) ==
  LET run == runs[r]
      kept == removeExcept(refDir, toKeep(boundaryEdges(run.w[1].shape)))
  IN /\ run.pc = "gc"
     /\ ~MicrotaskPending
     /\ \/ /\ refDir' = kept
           /\ runs' = [runs EXCEPT ![r] =
                 [run EXCEPT !.pc = "persist",
                             !.fx = [@ EXCEPT !.deleted = @ \/ kept # refDir]]]
        \/ /\ kept # refDir
           /\ refDir' = refDir
           /\ runs' = [runs EXCEPT ![r] = Reject(run, run.fx, "full")]
     /\ UNCHANGED <<worldVars, withWritePermission, hashed, snapshotFile, importMapFile,
                    outDir, state, result, hmrVars, queryVars>>

\* updateJsonFileIfDifferent(snapshotPath, ...) and the return
RunPersist(r) ==
  LET run == runs[r]
      found == updatedBootstrapModules(run.esbuildResult) # <<>>
      snap == newSnapshot(run.w[1], esbuildServerBuild(run.w[1]), run.esbuildResult)
  IN /\ run.pc = "persist"
     /\ ~MicrotaskPending
     /\ \/ /\ ~found
           /\ snapshotFile' = snapshotFile
           /\ runs' = [runs EXCEPT ![r] = Reject(run, run.fx, "full")]
        \/ /\ found
           /\ snapshotFile' = <<snap>>
           /\ runs' = [runs EXCEPT ![r] =
                 Fulfil(run, [run.fx EXCEPT !.wrote = @ \/ <<snap>> # snapshotFile,
                                       !.wroteSnapshot = <<snap>> # snapshotFile],
                        "full", snap)]
        \/ /\ found
           /\ <<snap>> # snapshotFile
           /\ snapshotFile' = snapshotFile
           /\ runs' = [runs EXCEPT ![r] = Reject(run, run.fx, "full")]
     /\ UNCHANGED <<worldVars, withWritePermission, hashed, importMapFile, refDir, outDir,
                    state, result, hmrVars, queryVars>>

\* --------------------------------------------------- setupClientComponents
\* paths hot-reload events carry: a graph module, a file outside the graph,
\* a json file, a file under build/<basePath>
EventPaths == {"B", "other", "data.json", "build/es/x"}

\* detail.path.startsWith(dir)
underBuildDirectory(path) == path = "build/es/x"
\* parse(detail.path).ext?.startsWith("json")
hasJsonExtension(path) == path = "data.json"

\* the listener without the test on the build directory
HmrEventWithoutBuildDirectoryTest(path) ==
  /\ ~MicrotaskPending
  /\ stimuli < MaxStimuli
  /\ stimuli' = stimuli + 1
  /\ listeners' = Append(listeners,
       [path |-> path, pc |-> "awaitResult", on |-> result,
        during |-> {r \in RunIds : InFlight(r)}, started |-> 0])
  /\ UNCHANGED <<shape, content, mtime, changes, withWritePermission, hashed, diskVars, state, runs, result,
                 dispatched, queryVars>>

\* the hmr listener up to `await result`
HmrEvent(path) ==
  /\ ~MicrotaskPending
  /\ stimuli < MaxStimuli
  /\ stimuli' = stimuli + 1
  /\ listeners' = Append(listeners,
       [path |-> path,
        pc |-> IF underBuildDirectory(path) THEN "ignored" ELSE "awaitResult",
        on |-> IF underBuildDirectory(path) THEN 0 ELSE result,
        during |-> {r \in RunIds : InFlight(r)},
        started |-> 0])
  /\ UNCHANGED <<shape, content, mtime, changes, withWritePermission, hashed, diskVars, state, runs, result,
                 dispatched, queryVars>>

\* the condition that lets every event start a run
triggersRebuildAlways(path, locals) == TRUE

\* module || parse(detail.path).ext?.startsWith("json")
triggersRebuild(path, locals) == path \in Range(locals) \/ hasJsonExtension(path)

\* the first listener invocation whose awaited promise has settled
NextListener == CHOOSE i \in 1..Len(listeners) :
                  ListenerReady(i) /\ \A j \in 1..(i - 1) : ~ListenerReady(j)

NewRunId == CHOOSE n \in RunIds : runs[n].pc = "idle" /\ \A m \in 1..(n - 1) : runs[m].pc # "idle"

\* `await result` throws in the listener: nothing is dispatched
ListenerThrows ==
  /\ ~SurfaceReady
  /\ \E i \in 1..Len(listeners) : ListenerReady(i)
  /\ runs[listeners[NextListener].on].pc = "rejected"
  /\ listeners' = [listeners EXCEPT ![NextListener].pc = "threw"]
  /\ UNCHANGED <<worldVars, withWritePermission, hashed, diskVars, state, runs, result,
                 dispatched, queryVars>>

\* after `const { locals } = await result`: start a run or dispatch
ListenerChecks ==
  /\ ~SurfaceReady
  /\ \E i \in 1..Len(listeners) : ListenerReady(i)
  /\ LET i == NextListener
         l == listeners[i]
     IN /\ l.pc = "awaitResult"
        /\ runs[l.on].pc = "fulfilled"
        /\ IF triggersRebuild(l.path, runs[l.on].ret[1].locals)
             THEN /\ runs' = [r \in RunIds |->
                             IF r = NewRunId
                               THEN [IdleRun EXCEPT !.pc = "start",
                                        !.alone = \A o \in RunIds : ~InFlight(o)]
                             ELSE IF InFlight(r) THEN [runs[r] EXCEPT !.alone = FALSE]
                             ELSE runs[r]]
                  /\ result' = NewRunId
                  /\ listeners' = [listeners EXCEPT ![i] =
                        [l EXCEPT !.pc = "awaitRebuild", !.on = NewRunId,
                                  !.started = NewRunId]]
                  /\ dispatched' = dispatched
             ELSE /\ listeners' = [listeners EXCEPT ![i].pc = "done"]
                  /\ dispatched' = dispatched + 1
                  /\ UNCHANGED <<runs, result>>
  /\ UNCHANGED <<worldVars, withWritePermission, hashed, diskVars, state, queryVars>>

\* after the awaited rebuild: dispatch hmrRebuildEventName
ListenerDispatches ==
  /\ ~SurfaceReady
  /\ \E i \in 1..Len(listeners) : ListenerReady(i)
  /\ listeners[NextListener].pc = "awaitRebuild"
  /\ runs[listeners[NextListener].on].pc = "fulfilled"
  /\ listeners' = [listeners EXCEPT ![NextListener].pc = "done"]
  /\ dispatched' = dispatched + 1
  /\ UNCHANGED <<worldVars, withWritePermission, hashed, diskVars, state, runs, result,
                 queryVars>>

\* `if (withWritePermission) await result;` and the return of the surface
SetupReturns ==
  /\ SurfaceReady
  /\ surface' = IF withWritePermission /\ runs[1].pc = "rejected"
                  THEN "failed" ELSE "ready"
  /\ UNCHANGED <<worldVars, withWritePermission, hashed, diskVars, state, runs, result,
                 hmrVars, query, answers, stream, http>>

QueryKinds == {"hasClientBuildFinished", "getBootstrapModules"}

\* hasClientBuildFinished() / getBootstrapModules(): take `result`
QueryCall(kind) ==
  /\ ~MicrotaskPending
  /\ surface = "ready"
  /\ query.pc = "idle"
  /\ stimuli < MaxStimuli
  /\ stimuli' = stimuli + 1
  /\ query' = [pc |-> "waiting", kind |-> kind, on |-> result]
  /\ UNCHANGED <<shape, content, mtime, changes, withWritePermission, hashed, diskVars, state, runs, result,
                 hmrVars, surface, answers, stream, http>>

\* a query answered from a run's unfinished data: no output paths yet
queryAnswerUnfinished(kind, run) ==
  IF run.pc = "rejected"
    THEN [kind |-> kind, ok |-> FALSE, snapshot |-> <<>>, modules |-> <<>>]
  ELSE IF kind = "hasClientBuildFinished"
    THEN [kind |-> kind, ok |-> TRUE,
          snapshot |-> <<[run.ret[1] EXCEPT !.updatedBootstrapModules = <<>>]>>,
          modules |-> <<>>]
  ELSE [kind |-> kind, ok |-> TRUE, snapshot |-> <<>>, modules |-> <<>>]

\* what a query resolves with once the promise it took has settled
queryAnswer(kind, run) ==
  IF run.pc = "rejected"
    THEN [kind |-> kind, ok |-> FALSE, snapshot |-> <<>>, modules |-> <<>>]
  ELSE IF kind = "hasClientBuildFinished"
    THEN [kind |-> kind, ok |-> TRUE, snapshot |-> run.ret, modules |-> <<>>]
  ELSE [kind |-> kind, ok |-> TRUE, snapshot |-> <<>>,
        modules |-> run.ret[1].updatedBootstrapModules]

QuerySettles ==
  /\ QueryReady
  /\ answers' = answers \cup {queryAnswer(query.kind, runs[query.on])}
  /\ query' = [query EXCEPT !.pc = "idle", !.kind = "none", !.on = 0]
  /\ UNCHANGED <<worldVars, withWritePermission, hashed, diskVars, state, runs, result,
                 hmrVars, surface, stream, http>>

\* ----------------------------------------------------------- environment
\* the developer saves a file with new content
EditFile(f) ==
  /\ ~MicrotaskPending
  /\ stimuli < MaxStimuli
  /\ content' = [content EXCEPT ![f] = @ + 1]
  /\ mtime' = [mtime EXCEPT ![f] = @ + 1]
  /\ stimuli' = stimuli + 1
  /\ changes' = changes + 1
  /\ UNCHANGED <<shape, withWritePermission, hashed, diskVars, state, runs, result,
                 hmrVars, queryVars>>

\* the file is written again with the same content (touch, checkout, copy)
TouchFile(f) ==
  /\ ~MicrotaskPending
  /\ stimuli < MaxStimuli
  /\ mtime' = [mtime EXCEPT ![f] = @ + 1]
  /\ stimuli' = stimuli + 1
  /\ changes' = changes + 1
  /\ UNCHANGED <<shape, content, withWritePermission, hashed, diskVars, state, runs,
                 result, hmrVars, queryVars>>

\* the developer changes the imports of the entry module
ChangeImports(sh) ==
  /\ ~MicrotaskPending
  /\ stimuli < MaxStimuli
  /\ sh # shape
  /\ shape' = sh
  /\ stimuli' = stimuli + 1
  /\ changes' = changes + 1
  /\ UNCHANGED <<content, mtime, withWritePermission, hashed, diskVars, state, runs,
                 result, hmrVars, queryVars>>

\* an entry of the profile disappears from deno.json (hand edit, checkout)
DropImportMapEntry(e) ==
  /\ ~MicrotaskPending
  /\ stimuli < MaxStimuli
  /\ e \in importMapFile.scopes
  /\ underReferenceDirectory(e.target)
  /\ importMapFile' = [importMapFile EXCEPT !.scopes = @ \ {e}]
  /\ stimuli' = stimuli + 1
  /\ changes' = changes + 1
  /\ UNCHANGED <<shape, content, mtime, withWritePermission, hashed, snapshotFile,
                 refDir, outDir, state, runs, result, hmrVars, queryVars>>

\* ------------------------------------------------------------ specification
Next ==
  \/ \E r \in RunIds : RunRead(r)
  \/ \E r \in RunIds : RunAnalyse(r)
  \/ \E r \in RunIds : RunBuild(r)
  \/ \E r \in RunIds : RunRefs(r)
  \/ \E r \in RunIds : RunImportMap(r)
  \/ \E r \in RunIds : RunGc(r)
  \/ \E r \in RunIds : RunPersist(r)
  \/ \E p \in EventPaths : HmrEvent(p)
  \/ ListenerThrows
  \/ ListenerChecks
  \/ ListenerDispatches
  \/ SetupReturns
  \/ \E k \in QueryKinds : QueryCall(k)
  \/ QuerySettles
  \/ \E f \in Files : EditFile(f)
  \/ \E f \in Files : TouchFile(f)
  \/ \E sh \in Shapes : ChangeImports(sh)
  \/ \E e \in importMapFile.scopes : DropImportMapEntry(e)

Spec == Init /\ [][Next]_vars

\* ------------------------------------------------------- overlapping runs
\* the program after the first run, a full build of main -> B, C from an empty
\* build directory, during which two hot-reload events for B arrived: each
\* listener invocation has replaced result with a run of its own
TwoRunsStarted ==
  LET w == InitialWorld("s2")
  IN /\ shape = "s2"
     /\ content = w.content
     /\ mtime = w.mtime
     /\ changes = 0
     /\ withWritePermission = TRUE
     /\ snapshotFile = <<BuiltSnapshot(w)>>
     /\ importMapFile = BuiltImportMap(w)
     /\ refDir = BuiltReferences(w)
     /\ outDir = {o.path : o \in BuiltOutputs(w)}
     /\ hashed = {<<sourceContent(w), decisionHash(w)>>}
     /\ state = [entryPoints |-> requiredEntryPoints("s2"),
                 esbuildContext |-> <<[entryPoints |-> Range(requiredEntryPoints("s2")),
                                       disposed |-> FALSE]>>]
     /\ runs = [r \in RunIds |->
                 IF r = 1
                   THEN Fulfil(IdleRun,
                               [serverBuilds |-> 1, rebuilds |-> 1, contexts |-> 1,
                                wrote |-> TRUE, deleted |-> TRUE, generated |-> TRUE,
                                wroteImportMap |-> TRUE, wroteSnapshot |-> TRUE],
                               "full", BuiltSnapshot(w))
                 ELSE IF r \in {2, 3}
                   THEN [IdleRun EXCEPT !.pc = "start", !.alone = FALSE]
                 ELSE IdleRun]
     /\ result = 3
     /\ listeners = [i \in 1..2 |->
                       [path |-> "B", pc |-> "awaitRebuild", on |-> i + 1,
                        during |-> {1}, started |-> i + 1]]
     /\ dispatched = 0
     /\ surface = "ready"
     /\ query = [pc |-> "idle", kind |-> "none", on |-> 0]
     /\ answers = {}
     /\ stream = IdleStream
     /\ http = IdleHttp

OverlapInit == TwoRunsStarted /\ stimuli = 0

\* the two runs and the listeners awaiting them, while the developer goes on
\* editing
OverlapNext ==
  \/ \E r \in RunIds : RunRead(r)
  \/ \E r \in RunIds : RunAnalyse(r)
  \/ \E r \in RunIds : RunBuild(r)
  \/ \E r \in RunIds : RunRefs(r)
  \/ \E r \in RunIds : RunImportMap(r)
  \/ \E r \in RunIds : RunGc(r)
  \/ \E r \in RunIds : RunPersist(r)
  \/ ListenerThrows
  \/ ListenerDispatches
  \/ \E f \in Files : EditFile(f)
  \/ \E f \in Files : TouchFile(f)
  \/ \E sh \in Shapes : ChangeImports(sh)
  \/ \E e \in importMapFile.scopes : DropImportMapEntry(e)

OverlapSpec == OverlapInit /\ [][OverlapNext]_vars

\* ------------------------------------------------------ PathTransformStream
\* bytes and characters are one-character strings, except the two bytes of
\* the character E_ACUTE and the three bytes of the replacement character
LeadByte == "c3"
ContByte == "a9"
EAcute == "e-acute"
Replacement == "U+FFFD"

\* TextDecoder.decode(bytes, { stream: true }) on the bytes it held back
\* followed by the chunk: the text, and the bytes held back for the next call
RECURSIVE decodeBytes(_)
decodeBytes(bs) ==
  IF bs = <<>> THEN [text |-> <<>>, held |-> <<>>]
  ELSE IF Head(bs) = LeadByte /\ Len(bs) = 1 THEN [text |-> <<>>, held |-> bs]
  ELSE IF Head(bs) = LeadByte /\ bs[2] = ContByte
    THEN LET d == decodeBytes(SubSeq(bs, 3, Len(bs)))
         IN [d EXCEPT !.text = <<EAcute>> \o @]
  ELSE LET d == decodeBytes(Tail(bs))
       IN [d EXCEPT !.text =
             <<IF Head(bs) \in {LeadByte, ContByte} THEN Replacement ELSE Head(bs)>> \o @]

\* TextEncoder.encode
RECURSIVE encode(_)
encode(text) ==
  IF text = <<>> THEN <<>>
  ELSE (IF Head(text) = EAcute THEN <<LeadByte, ContByte>>
        ELSE IF Head(text) = Replacement THEN <<"ef", "bf", "bd">>
        ELSE <<Head(text)>>) \o encode(Tail(text))

\* String.prototype.indexOf(pattern, from): 0-based position, -1 if absent
RECURSIVE indexOf(_, _, _)
indexOf(text, pattern, from) ==
  IF from + Len(pattern) > Len(text) THEN -1
  ELSE IF SubSeq(text, from + 1, from + Len(pattern)) = pattern THEN from
  ELSE indexOf(text, pattern, from + 1)

\* String.prototype.split("\n")
RECURSIVE split(_)
split(text) ==
  LET i == indexOf(text, <<"\n">>, 0)
  IN IF i = -1 THEN <<text>>
     ELSE <<SubSeq(text, 1, i)>> \o split(SubSeq(text, i + 2, Len(text)))

\* join("/", basePath, originalPath) for a relative path without dot segments
joinPath(base, path) == <<"/", base, "/">> \o path

\* basename(path)
RECURSIVE basename(_)
basename(path) ==
  LET i == indexOf(path, <<"/">>, 0)
  IN IF i = -1 THEN path ELSE basename(SubSeq(path, i + 2, Len(path)))

\* the outputMappings value of the bundle written to outputRelativePath:
\* endpointPath is join(endpointDirectory, basename(outputRelativePath))
mappingOf(outputRelativePath) ==
  [endpointPath |-> <<"/", BasePath, "/", "build", "/", "es", "/">>
                      \o basename(outputRelativePath),
   outputPath |-> outputRelativePath]

\* the marker of a module reference row
Marker == <<":", "I", "[", Quote>>

\* transformLine
transformLine(line) ==
  LET index == indexOf(line, Marker, 0)
      start == index + 4
      end == indexOf(line, <<Quote>>, start)
      originalPath == slice(line, start, end)
  IN IF index # -1 /\ end # -1 /\ originalPath # <<>>
       THEN slice(line, 0, start) \o joinPath(BasePath, originalPath)
              \o slice(line, end, Len(line))
       ELSE line

\* the lines of one call, each transformed, encoded and enqueued
RECURSIVE enqueueLines(_)
enqueueLines(lines) ==
  IF lines = <<>> THEN <<>>
  ELSE encode(transformLine(Head(lines)) \o <<"\n">>) \o enqueueLines(Tail(lines))

\* transform that splits each chunk on its own, without the pending text
transformWithoutPending(st, chunk) ==
  LET d == decodeBytes(st.undecoded \o chunk)
      lines == split(d.text)
  IN [st EXCEPT !.undecoded = d.held,
                !.pendingChunk = lines[Len(lines)],
                !.out = @ \o enqueueLines(SubSeq(lines, 1, Len(lines) - 1))]

\* transform: (chunk, controller) => ...
transform(st, chunk) ==
  LET d == decodeBytes(st.undecoded \o chunk)
      lines == split(st.pendingChunk \o d.text)
  IN [st EXCEPT !.undecoded = d.held,
                !.pendingChunk = lines[Len(lines)],
                !.out = @ \o enqueueLines(SubSeq(lines, 1, Len(lines) - 1))]

\* flush that enqueues the pending text as it stands
flushWithoutTransform(st) ==
  IF st.pendingChunk # <<>>
    THEN [st EXCEPT !.out = @ \o encode(st.pendingChunk \o <<"\n">>)]
    ELSE st

\* flush: (controller) => ...
flush(st) ==
  IF st.pendingChunk # <<>>
    THEN [st EXCEPT !.out = @ \o encode(transformLine(st.pendingChunk) \o <<"\n">>)]
    ELSE st

\* the rows a response is made of
StreamLines ==
  {<<"1">> \o Marker \o <<"p", Quote, "x">>,
   <<"a">>,
   Marker \o <<EAcute>>,
   <<>>,
   <<EAcute>> \o Marker \o <<Quote>>}

\* the responses piped through the stream: two rows, the last one with or
\* without its line end
StreamInputs ==
  {encode(a \o <<"\n">> \o b \o e) :
     a \in StreamLines, b \in StreamLines, e \in {<<>>, <<"\n">>}}

\* getReadableStream(stream) on a new PathTransformStream
StreamInit ==
  /\ BuildInit
  /\ shape = "s1"
  /\ withWritePermission
  /\ snapshotFile = <<>>
  /\ stream \in {[IdleStream EXCEPT !.pc = "open", !.input = i, !.rest = i] :
                    i \in StreamInputs}
  /\ http = IdleHttp

\* the source delivers the next n bytes as one chunk
StreamTransform(n) ==
  /\ stream.pc = "open"
  /\ n <= Len(stream.rest)
  /\ stream' = [transform(stream, SubSeq(stream.rest, 1, n))
                  EXCEPT !.rest = SubSeq(stream.rest, n + 1, Len(stream.rest))]
  /\ UNCHANGED <<worldVars, withWritePermission, hashed, diskVars, state, runs,
                 result, hmrVars, surface, query, answers, http>>

\* the source closes after its last byte
StreamFlush ==
  /\ stream.pc = "open"
  /\ stream.rest = <<>>
  /\ stream' = [flush(stream) EXCEPT !.pc = "closed"]
  /\ UNCHANGED <<worldVars, withWritePermission, hashed, diskVars, state, runs,
                 result, hmrVars, surface, query, answers, http>>

StreamNext ==
  \/ \E n \in 1..Len(stream.rest) : StreamTransform(n)
  \/ StreamFlush

StreamSpec == StreamInit /\ [][StreamNext]_vars

\* ----------------------------------------------------------- createRenderer
\* redirects the client follows for one call before it gives up
MaxRedirects == 2

Methods == {"GET", "POST"}
Accepts == {"text/x-component", "text/html"}
ActionId == "rsc_action_id"
Redirected == "x-rsc-redirected"

\* what the server action of a call does: it returns a value, or it calls
\* ctx.state.redirect with a relative or an absolute url and a status
ActionOutcomes ==
  {[kind |-> "returns", status |-> 0]} \cup
  {[kind |-> k, status |-> st] : k \in {"relative", "absolute"}, st \in {307, 303}}

\* the requests a client call starts with: a url is a path and the names of
\* its query parameters
InitialRequests ==
  {[method |-> m, accept |-> a, url |-> [path |-> "/actions", params |-> ps]] :
     m \in Methods, a \in Accepts, ps \in SUBSET {ActionId, Redirected}}

\* urlcat(url, { [name]: value }) without the parameter
urlcatWithoutParameter(url, name) == [path |-> url, params |-> {}]

\* urlcat(url, { [name]: value })
urlcat(url, name) == [path |-> url, params |-> {name}]

\* the condition under which the handler runs the action of the request
runsAction(req) ==
  /\ req.method = "POST"
  /\ req.accept = "text/x-component"
  /\ Redirected \notin req.url.params

\* the handler for one request: the number of times the action ran and the
\* response
handler(req, built, outcome) ==
  IF ~built
    THEN [ran |-> 0, resp |-> [kind |-> "error"]]
  ELSE IF runsAction(req) /\ ActionId \notin req.url.params
    THEN [ran |-> 0, resp |-> [kind |-> "error"]]
  ELSE IF runsAction(req) /\ outcome.kind = "absolute"
    THEN [ran |-> 1, resp |-> [kind |-> "x-rsc-redirect"]]
  ELSE IF runsAction(req) /\ outcome.kind = "relative"
    THEN [ran |-> 1,
          resp |-> [kind |-> "redirect", status |-> outcome.status,
                    location |-> urlcat("/target", Redirected)]]
  ELSE [ran |-> IF runsAction(req) THEN 1 ELSE 0,
        resp |-> [kind |-> "rendered",
                  node |-> IF runsAction(req) THEN "action result"
                           ELSE req.url.path,
                  contentType |-> IF req.accept = "text/x-component"
                                    THEN "text/x-component" ELSE "text/html"]]

\* a client sends a request; the build may or may not have succeeded
RendererInit ==
  /\ BuildInit
  /\ shape = "s1"
  /\ withWritePermission
  /\ snapshotFile = <<>>
  /\ stream = IdleStream
  /\ http \in {[pc |-> "request", first |-> q, req |-> q, built |-> b,
                 outcome |-> o, executed |-> 0, redirects |-> 0,
                 resp |-> [kind |-> "none"]] :
                  q \in InitialRequests, b \in BOOLEAN, o \in ActionOutcomes}

\* the handler returned by createRenderer answers the request
RendererHandle ==
  /\ http.pc = "request"
  /\ LET h == handler(http.req, http.built, http.outcome)
     IN http' = [http EXCEPT !.pc = "response", !.executed = @ + h.ran,
                             !.resp = h.resp]
  /\ UNCHANGED <<worldVars, withWritePermission, hashed, diskVars, state, runs,
                 result, hmrVars, surface, query, answers, stream>>

\* fetch follows the redirect: 307 keeps the method, 303 turns it into GET
ClientFollows ==
  /\ http.pc = "response"
  /\ http.resp.kind = "redirect"
  /\ http.redirects < MaxRedirects
  /\ http' = [http EXCEPT !.pc = "request", !.redirects = @ + 1,
                          !.req = [method |-> IF http.resp.status = 307
                                                THEN http.req.method ELSE "GET",
                                   accept |-> http.req.accept,
                                   url |-> http.resp.location]]
  /\ UNCHANGED <<worldVars, withWritePermission, hashed, diskVars, state, runs,
                 result, hmrVars, surface, query, answers, stream>>

\* the client has the final response of its call
ClientSettles ==
  /\ http.pc = "response"
  /\ http.resp.kind # "redirect" \/ http.redirects = MaxRedirects
  /\ http' = [http EXCEPT !.pc = "settled"]
  /\ UNCHANGED <<worldVars, withWritePermission, hashed, diskVars, state, runs,
                 result, hmrVars, surface, query, answers, stream>>

RendererNext ==
  \/ RendererHandle
  \/ ClientFollows
  \/ ClientSettles

RendererSpec == RendererInit /\ [][RendererNext]_vars

\* ------------------------------------------------------------------ claims
\* the step in which run r takes the short-circuit return
ShortCircuits(r) == runs[r].pc = "analyse" /\ runs'[r].pc = "fulfilled"

\* every import-map entry the boundary edges of graph sh expect is in scopes
AllEntriesPresent(scopes, sh) ==
  \A i \in 1..Len(boundaryEdges(sh)) : entryPresent(scopes, boundaryEdges(sh)[i])

\* C1: a run returns the persisted snapshot without the full build only if
\* the decision hash equals the snapshot's hash and every import-map entry
\* expected for the boundary edges is present in the import-map table it read
C1_ShortCircuitOnlyIfEveryEntryPresent ==
  [][\A r \in RunIds :
       ShortCircuits(r) =>
         /\ runs[r].snapshot # <<>>
         /\ runs[r].snapshot[1].hash = decisionHash(World)
         /\ AllEntriesPresent(runs[r].localImportMap, shape)]_vars

\* a run that took the short-circuit return
Cached(r) == runs[r].pc = "fulfilled" /\ runs[r].kind = "cached"

\* C2 as stated: a run that short-circuits performs no bundler invocation at
\* all, writes and deletes no file, regenerates no reference code and returns
\* the persisted snapshot unchanged
C2_ShortCircuitNoBundlerInvocation ==
  \A r \in RunIds :
    Cached(r) => /\ runs[r].fx = NoEffects
                 /\ runs[r].ret = runs[r].snapshot

\* C2 amended: a run that short-circuits returns the snapshot it read
\* unchanged, creates no incremental build context and calls no rebuild,
\* writes and deletes no file and regenerates no reference code; the only
\* bundler invocation is the preliminary server-only build (write: false)
C2_ShortCircuitOnlyServerBuild ==
  \A r \in RunIds :
    Cached(r) => /\ runs[r].fx = [NoEffects EXCEPT !.serverBuilds = 1]
                 /\ runs[r].ret = runs[r].snapshot

\* C2 witness: a run of a write-capable setup has short-circuited
C2_Witness == \E r \in RunIds : Cached(r) /\ withWritePermission

\* run r + 1 ran after run r, alone, and nothing changed since run r started
RanTwice(r) ==
  /\ r + 1 \in RunIds
  /\ withWritePermission
  /\ changes = 0
  /\ runs[r].pc = "fulfilled"
  /\ runs[r + 1].pc = "fulfilled"
  /\ runs[r + 1].alone

\* C3 as stated: the second of two successive runs with no source change
\* leaves snapshot and import map as they are and invokes the bundler zero
\* times
C3_SecondRunZeroBundlerInvocations ==
  \A r \in RunIds :
    RanTwice(r) => /\ ~runs[r + 1].fx.wrote
                   /\ ~runs[r + 1].fx.deleted
                   /\ runs[r + 1].fx.serverBuilds = 0
                   /\ runs[r + 1].fx.rebuilds = 0

\* C3 amended: the second of two successive runs with no source change
\* short-circuits: it writes and deletes nothing (snapshot and import map
\* stay byte-identical), creates no context and calls no rebuild; it runs
\* the preliminary server-only build once
C3_SecondRunShortCircuits ==
  \A r \in RunIds :
    RanTwice(r) => /\ runs[r + 1].kind = "cached"
                   /\ runs[r + 1].fx = [NoEffects EXCEPT !.serverBuilds = 1]
                   /\ snapshotFile = runs[r + 1].ret

\* C3 witness: a full build followed by a second run, nothing changed
C3_Witness ==
  \E r \in RunIds : RanTwice(r) /\ runs[r].kind = "full" /\ runs[r].fx.wroteSnapshot

\* C4: the decision hash is a function of the module graph's content only:
\* two runs over the same graph and content compute the same hash
C4_HashDependsOnContentOnly ==
  \A p \in hashed : \A q \in hashed : p[1] = q[1] => p[2] = q[2]

\* C5: at most one orchestration run is in flight at any time
C5_AtMostOneRunInFlight ==
  withWritePermission => Cardinality({r \in RunIds : InFlight(r)}) <= 1

\* C6: the events that arrive during one in-flight build start at most one
\* additional rebuild together
C6_EventsDuringBuildCoalesced ==
  \A r \in RunIds :
    withWritePermission =>
    Cardinality({i \in 1..Len(listeners) :
                   r \in listeners[i].during /\ listeners[i].started # 0}) <= 1

\* C7: every answer of a runtime query is the result of one completed run:
\* the whole returned snapshot of a fulfilled run, or its bootstrap modules
C7_QueriesAnswerFromCompletedRun ==
  \A a \in answers :
    a.ok => \E r \in RunIds :
              /\ runs[r].pc = "fulfilled"
              /\ a.kind = "hasClientBuildFinished" => a.snapshot = runs[r].ret
              /\ a.kind = "getBootstrapModules" =>
                   a.modules = runs[r].ret[1].updatedBootstrapModules

\* C7 witness: a query was answered and a later run is in progress
C7_Witness ==
  /\ \E a \in answers : a.ok
  /\ \E r \in RunIds : InFlight(r)

\* C8: the snapshot file changes only in the last step of a run that got
\* through the rebuild and every other write and delete, and a run that
\* fails has not written it: when a run that never overlapped another one
\* fails, the file is what the run read at its start
C8_SnapshotWrittenLast ==
  [][/\ snapshotFile' # snapshotFile =>
          \E r \in RunIds : /\ runs[r].pc = "persist"
                            /\ runs'[r].pc = "fulfilled"
                            /\ runs[r].fx.rebuilds = 1
                            /\ runs[r].fx.generated
                            /\ snapshotFile' = runs'[r].ret
     /\ \A r \in RunIds :
          (runs'[r].pc = "rejected" /\ runs[r].pc \notin {"start", "rejected"}) =>
             /\ ~runs'[r].fx.wroteSnapshot
             /\ runs[r].alone => snapshotFile' = runs[r].snapshot]_vars

\* C8 witness: a full build failed after the rebuild while a snapshot of an
\* earlier build is on disk
C8_Witness ==
  \E r \in RunIds : /\ runs[r].pc = "rejected"
                    /\ runs[r].fx.rebuilds = 1
                    /\ runs[r].fx.generated
                    /\ runs[r].alone
                    /\ snapshotFile # <<>>

\* C9: after a rebuild triggered by a hot-reload event failed, the runtime
\* queries still resolve (with the last successfully built snapshot)
C9_QueriesResolveAfterFailedRebuild ==
  withWritePermission => \A a \in answers : a.ok

\* C10: a run that aborts has not modified the import-map file and has
\* deleted no reference or bundle file
C10_AbortLeavesPersistedState ==
  \A r \in RunIds :
    runs[r].pc = "rejected" => /\ ~runs[r].fx.wroteImportMap
                               /\ ~runs[r].fx.deleted

\* C11: without write permission a run invokes no bundler and writes and
\* deletes no file, and the run that finds a snapshot returns exactly the
\* persisted snapshot
C11_ReadOnlyRunHasNoEffects ==
  ~withWritePermission =>
    \A r \in RunIds :
      /\ runs[r].fx = NoEffects
      /\ runs[r].pc = "fulfilled" => runs[r].ret = snapshotFile

\* C11 witness: a run without write permission returned the snapshot
C11_Witness ==
  /\ ~withWritePermission
  /\ \E r \in RunIds : runs[r].pc = "fulfilled" /\ runs[r].kind = "readonly"

\* C12: without write permission and without a persisted snapshot,
\* setupClientComponents never returns the runtime query surface
C12_ReadOnlyWithoutSnapshotFailsStartup ==
  (~withWritePermission /\ snapshotFile = <<>>) => surface # "ready"

\* a file of the reference directory that a run generated (proxy or reference)
GeneratedFile(f) == f.name[1] \in {"ref", "proxy"}

\* C13: the clean-up of the reference directory after a full build deletes
\* every generated file the run no longer references and never deletes a
\* file the orchestrator did not generate
C13_GcDeletesOnlyStaleGeneratedFiles ==
  [][\A r \in RunIds :
       (runs[r].pc = "gc" /\ runs'[r].pc = "persist") =>
         \A f \in refDir :
           /\ (GeneratedFile(f) /\
                 f.name \notin toKeep(boundaryEdges(runs[r].w[1].shape)))
                => f \notin refDir'
           /\ ~GeneratedFile(f) => f \in refDir']_vars

\* C14: every import-map entry whose target is not under the reference
\* directory of this build profile is still in the table, with the same key
\* and value, after every step
C14_ForeignEntriesPreserved ==
  [][\A e \in importMapFile.scopes :
       ~underReferenceDirectory(e.target) => e \in importMapFile'.scopes]_vars

\* the scopes a run over graph sh produces
producedScopes(sh) == {e.scope : e \in newScopes(sh)}

\* the step in which run r merges its scopes into deno.json
MergesImportMap(r) == runs[r].pc = "importmap" /\ runs'[r].pc = "gc"

\* C15 as stated: the merge leaves every scope the run did not produce with
\* exactly the keys and values it had
C15_OtherScopesUntouched ==
  [][\A r \in RunIds :
       MergesImportMap(r) =>
         \A e \in importMapFile.scopes \cup importMapFile'.scopes :
           e.scope \notin producedScopes(runs[r].w[1].shape) =>
             (e \in importMapFile'.scopes <=> e \in importMapFile.scopes)]_vars

\* C15 amended: in every scope the run did not produce, the merge keeps
\* exactly the entries whose target is not under the reference directory of
\* this build profile, unchanged, and removes the entries that are under it
C15_OtherScopesKeepForeignEntries ==
  [][\A r \in RunIds :
       MergesImportMap(r) =>
         \A e \in importMapFile.scopes \cup importMapFile'.scopes :
           e.scope \notin producedScopes(runs[r].w[1].shape) =>
             (e \in importMapFile'.scopes <=>
                (e \in importMapFile.scopes /\ ~underReferenceDirectory(e.target)))]_vars

\* C15 witness: a merge was written that dropped a reference entry of a
\* scope the run did not produce and kept a foreign entry of another one
C15_Witness ==
  \E r \in RunIds :
    /\ runs[r].pc = "gc"
    /\ runs[r].fx.wroteImportMap
    /\ \E e \in runs[r].localImportMap :
         /\ e.scope \notin producedScopes(runs[r].w[1].shape)
         /\ underReferenceDirectory(e.target)
         /\ e \notin importMapFile.scopes
    /\ \E e \in importMapFile.scopes :
         /\ e.scope \notin producedScopes(runs[r].w[1].shape)
         /\ ~underReferenceDirectory(e.target)

\* the graph run r analysed, once it is past the analysis
Analysed(r) == runs[r].w # <<>>

\* C16: the scopes are exactly the modules whose directive is not client and
\* that have a direct dependency classified client or server; each scope
\* lists those direct dependencies only, in declaration order; for
\* main -> B (client) -> S (server) the result is the one edge main -> B
C16_ScopesAreDirectBoundaryDependencies ==
  \A r \in RunIds :
    Analysed(r) =>
      LET sh == runs[r].w[1].shape
          es == boundaryEdges(sh)
          crossing(d) == Directives[d] \in {"client", "server"}
          owners == {m \in Range(moduleSpecifiers(sh)) :
                       /\ Directives[m] # "client"
                       /\ \E i \in 1..Len(DepsOf(sh, m)) : crossing(DepsOf(sh, m)[i])}
          of(o) == SelectSeq(es, LAMBDA e : e.scope = o)
      IN /\ {es[i].scope : i \in 1..Len(es)} = owners
         /\ \A o \in owners :
              [i \in 1..Len(of(o)) |-> of(o)[i].dependency] =
                SelectSeq(DepsOf(sh, o), crossing)
         /\ sh = "s3" => es = <<[scope |-> "main", dependency |-> "B",
                                  module |-> "B", directive |-> "client"]>>

\* C16 witness: a run analysed the graph main -> B (client) -> S (server)
C16_Witness == \E r \in RunIds : Analysed(r) /\ runs[r].w[1].shape = "s3"

\* the classification with every `error` replaced by `default`
ErrorAsDefault ==
  [m \in Modules |-> IF Directives[m] = "error" THEN "default" ELSE Directives[m]]

\* C17: a module whose source cannot be obtained is classified `error`, and
\* a run over a graph with such a module does not come to the same scopes
\* and server entry points as if the module were an ordinary `default` one
C17_ErrorNotTreatedAsDefault ==
  \A r \in RunIds :
    Analysed(r) =>
      LET sh == runs[r].w[1].shape
      IN \A m \in Range(moduleSpecifiers(sh)) :
           ~Fetchable(m) =>
             /\ Directives[m] = "error"
             /\ \/ scopesWithDependencies(Directives, sh) #
                      scopesWithDependencies(ErrorAsDefault, sh)
                \/ serverEntryPoints(Directives, sh) #
                      serverEntryPoints(ErrorAsDefault, sh)

\* graph sh has a non-client module with a dependency classified `error`
FailedBoundaryCandidate(sh) ==
  \E o \in Range(moduleSpecifiers(sh)) :
    /\ Directives[o] # "client"
    /\ \E i \in 1..Len(DepsOf(sh, o)) : Directives[DepsOf(sh, o)[i]] = "error"

\* C18: no run completes successfully over a graph in which the
\* classification of a dependency of a non-client module failed
C18_FailedClassificationAbortsRun ==
  [][\A r \in RunIds :
       /\ (runs[r].pc = "persist" /\ runs'[r].pc = "fulfilled") =>
            ~FailedBoundaryCandidate(runs[r].w[1].shape)
       /\ ShortCircuits(r) => ~FailedBoundaryCandidate(shape)]_vars

\* s starts with the characters p
startsWith(s, p) == Len(s) >= Len(p) /\ SubSeq(s, 1, Len(p)) = p

\* C19: a module is classified client (server) exactly when its source,
\* with leading whitespace trimmed, starts with the quoted literal
\* use client (use server), and default otherwise
C19_DirectiveRecognisedAfterTrimming ==
  \A r \in RunIds :
    Analysed(r) =>
      \A m \in Range(moduleSpecifiers(runs[r].w[1].shape)) :
        Fetchable(m) =>
          Directives[m] =
            IF startsWith(trim(Prologue(m)), <<Quote>> \o UseClient \o <<Quote>>)
              THEN "client"
            ELSE IF startsWith(trim(Prologue(m)), <<Quote>> \o UseServer \o <<Quote>>)
              THEN "server"
            ELSE "default"

\* the output for the whole input delivered as one chunk
Unsplit(input) ==
  flush(transform([IdleStream EXCEPT !.pc = "open", !.input = input], input)).out

\* C20: whatever chunks the input was delivered in, the bytes emitted up to
\* the close of the stream are those emitted for the unsplit input
C20_OutputIndependentOfChunking ==
  stream.pc = "closed" => stream.out = Unsplit(stream.input)

\* C20 witness: a stream closed whose input had a marker with a quoted path
\* and whose output differs from the input
C20_Witness ==
  /\ stream.pc = "closed"
  /\ indexOf(stream.input, Marker \o <<"p", Quote>>, 0) # -1
  /\ stream.out # stream.input

\* the rows of a response, without the empty text after a final line end
inputLines(bytes) ==
  LET lines == split(decodeBytes(bytes).text)
  IN IF lines[Len(lines)] = <<>> THEN SubSeq(lines, 1, Len(lines) - 1) ELSE lines

\* C21: a response none of whose rows contains the marker comes out of the
\* stream byte for byte as it went in, with or without a final line end
C21_MarkerFreeInputUnchanged ==
  (stream.pc = "closed" /\ indexOf(stream.input, Marker, 0) = -1)
    => stream.out = stream.input

\* row k of the closed stream has the marker first at position a, followed
\* by a non-empty path that its first quote closes at position b
QuotedPathRow(k, a, b) ==
  LET line == inputLines(stream.input)[k]
  IN /\ stream.pc = "closed"
     /\ indexOf(line, Marker, 0) = a
     /\ a # -1
     /\ indexOf(line, <<Quote>>, a + 4) = b
     /\ b > a + 4

\* the row emitted for row k with the text path in place of its quoted path
EmittedWith(k, a, b, path) ==
  LET line == inputLines(stream.input)[k]
  IN /\ k <= Len(split(decodeBytes(stream.out).text))
     /\ split(decodeBytes(stream.out).text)[k] =
          SubSeq(line, 1, a + 4) \o path \o SubSeq(line, b + 1, Len(line))

EntryPointsChanged(r) ==
  /\ runs[r].pc = "analyse"
  /\ runs'[r].pc # "analyse"
  /\ state.esbuildContext # <<>>
  /\ symmetricDifference(requiredEntryPoints(shape), state.entryPoints) # {}

\* C23: a run whose required entry points differ from those of the previous
\* build disposes the previous context and goes on to the full build with a
\* new context, also when the content of the entry points kept is the same
C23_EntryPointChangeForcesFullRebuild ==
  [][\A r \in RunIds :
       EntryPointsChanged(r) =>
         /\ state'.esbuildContext[1].disposed
         /\ runs'[r].pc \in {"build", "rejected"}
         /\ runs'[r].pc = "build" => ~runs'[r].useCacheContext]_vars

\* the step in which run r takes up the import-map update while the table
\* refers to a reference file of the profile that was not on disk when the
\* run came to generate it
ReferencedFileWasMissing(r) ==
  /\ runs[r].pc = "importmap"
  /\ runs'[r].pc # "importmap"
  /\ \E e \in importMapFile.scopes :
       underReferenceDirectory(e.target) /\ e.target \in runs[r].notExistingYet

\* C24: in a full build, when the import-map table refers to a generated
\* reference file that was not on disk before the run, the update writes a
\* fresh rscUpdateId next to the scopes and, unless the write itself fails,
\* the run goes on to its next step
C24_MissingReferencedFileStampsUpdateId ==
  [][\A r \in RunIds :
       (ReferencedFileWasMissing(r) /\ runs'[r].pc # "rejected") =>
         /\ importMapFile'.rscUpdateId # importMapFile.rscUpdateId
         /\ runs'[r].pc = "gc"]_vars

\* C24 witness: the build directory was missing while deno.json named its
\* reference files; the first run stamped the import map and completed
C24_Witness ==
  /\ stimuli = 0
  /\ runs[1].pc = "fulfilled"
  /\ runs[1].kind = "full"
  /\ importMapFile.rscUpdateId # ColdImportMap.rscUpdateId
  /\ snapshotFile # <<>>

\* the step in which the listener invocation i starts a run
StartsRun(i) == listeners[i].started = 0 /\ listeners'[i].started # 0

\* the locals of the result the listener invocation i awaited
AwaitedLocals(i) == Range(runs[listeners[i].on].ret[1].locals)

C26_ModuleSetHasNoDuplicates ==
  \A r \in RunIds :
    Analysed(r) =>
      LET ms == moduleSpecifiers(runs[r].w[1].shape)
          es == boundaryEdges(runs[r].w[1].shape)
      IN /\ \A i, j \in 1..Len(ms) : ms[i] = ms[j] => i = j
         /\ \A i, j \in 1..Len(es) :
              (es[i].scope = es[j].scope /\ es[i].dependency = es[j].dependency)
                => i = j

\* C27: no module under a generated-reference directory is in the classified
\* module set of a run, so none is a scope owner, a boundary dependency, an
\* entry point of the server build or an entry point of the bundler
C27_ReferenceModulesNeverClassified ==
  \A r \in RunIds :
    Analysed(r) =>
      LET sh == runs[r].w[1].shape
      IN /\ \A i \in 1..Len(moduleSpecifiers(sh)) :
              ~underReferences(moduleSpecifiers(sh)[i])
         /\ \A i \in 1..Len(boundaryEdges(sh)) :
              /\ ~underReferences(boundaryEdges(sh)[i].scope)
              /\ ~underReferences(boundaryEdges(sh)[i].module)
         /\ \A e \in Range(requiredEntryPoints(sh)) : ~underReferences(e)
         /\ \A o \in Range(esbuildServerBuild(runs[r].w[1])) :
              ~underReferences(o.entryPoint)

\* C27 witness: a run analysed a graph in which the entry module imports a
\* generated reference module
C27_Witness ==
  \E r \in RunIds :
    /\ Analysed(r)
    /\ \E m \in Range(reachableFrom(runs[r].w[1].shape, EntryPoint)) :
         underReferences(m)

\* the step in which run r persists the snapshot of its full build
PersistsSnapshot(r) == runs[r].pc = "persist" /\ runs'[r].pc = "fulfilled"

\* C29: the outputMappings a full build persists has exactly one entry for
\* every boundary module, under that module's own specifier and with the
\* path of its output bundle; several boundary dependencies of one scope
\* give one entry each
C29_OneMappingPerBoundaryModule ==
  [][\A r \in RunIds :
       PersistsSnapshot(r) =>
         LET es == boundaryEdges(runs[r].w[1].shape)
             om == snapshotFile'[1].outputMappings
         IN /\ \A i \in 1..Len(es) :
                 \E x \in om :
                   /\ x.key = es[i].module
                   /\ x.outputPath =
                        outputOfEdge(es[i], esbuildServerBuild(runs[r].w[1]),
                                     runs[r].esbuildResult)[1].path
            /\ Cardinality(om) = Cardinality({es[i].module : i \in 1..Len(es)})]_vars

CallsRebuild(r) == runs[r].pc = "build" /\ runs'[r].pc # "build"

\* C28: the context a run calls rebuild on was created with exactly the
\* entry points the run requires: the existing one is reused only when its
\* entry points are those required, otherwise a new one is created first
C28_RebuildOnContextOfRequiredEntryPoints ==
  [][\A r \in RunIds :
       CallsRebuild(r) =>
         /\ state'.esbuildContext[1].entryPoints =
              Range(requiredEntryPoints(runs[r].w[1].shape))
         /\ runs'[r].fx.contexts =
              runs[r].fx.contexts + (IF runs[r].useCacheContext THEN 0 ELSE 1)
         /\ runs[r].useCacheContext =>
              /\ state.esbuildContext # <<>>
              /\ symmetricDifference(requiredEntryPoints(runs[r].w[1].shape),
                                     state.entryPoints) = {}]_vars

\* C31: whatever runs went before on the same state object, a run never
\* calls rebuild on a context that has been disposed
C31_NoRebuildOnDisposedContext ==
  [][\A r \in RunIds :
       CallsRebuild(r) => ~contextOf(runs[r], state).disposed]_vars

\* the step in which run r settles with a snapshot, and the graph it computed
ReturnsSnapshotOf(r, sh) ==
  \/ ShortCircuits(r) /\ sh = shape
  \/ PersistsSnapshot(r) /\ sh = runs[r].w[1].shape

\* C32: the locals a successful run returns, a run that took the
\* short-circuit return included, contain every module of the graph the run
\* computed
C32_LocalsCoverComputedGraph ==
  [][\A r \in RunIds : \A sh \in Shapes :
       ReturnsSnapshotOf(r, sh) =>
         Range(moduleSpecifiers(sh)) \subseteq Range(runs'[r].ret[1].locals)]_vars

\* C33: a failed run does not block later ones: a hot-reload event for a
\* module of the graph that is handled after a rebuild failed still starts a
\* new run
C33_EventAfterFailedRunStartsRun ==
  withWritePermission =>
    \A i \in 1..Len(listeners) :
      (/\ listeners[i].path \in Range(moduleSpecifiers(shape))
       /\ listeners[i].pc = "threw"
       /\ listeners[i].on > 1) => listeners[i].started # 0

\* C34: when a full build completes, every entry of deno.json whose target is
\* under the reference directory of the profile names a reference file that
\* is on disk
C34_ProfileEntriesNameExistingFiles ==
  [][\A r \in RunIds :
       PersistsSnapshot(r) =>
         \A e \in importMapFile'.scopes :
           underReferenceDirectory(e.target) =>
             \E f \in refDir' : f.name = e.target]_vars

\* C35: a hot-reload event for a path under the build directory of the
\* profile is ignored: its listener invocation returns at once, starts no run
\* and dispatches nothing, every dispatch belonging to an event for a path
\* outside that directory
C35_BuildDirectoryEventsIgnored ==
  /\ \A i \in 1..Len(listeners) :
       underBuildDirectory(listeners[i].path) =>
         /\ listeners[i].pc = "ignored"
         /\ listeners[i].started = 0
         /\ listeners[i].on = 0
  /\ dispatched = Cardinality({i \in 1..Len(listeners) :
                                 /\ ~underBuildDirectory(listeners[i].path)
                                 /\ listeners[i].pc = "done"})

\* C35 witness: an event for a bundle written by the build arrived after the
\* build completed, and the result is still that build
C35_Witness ==
  /\ withWritePermission
  /\ runs[1].pc = "fulfilled"
  /\ runs[1].kind = "full"
  /\ result = 1
  /\ \E i \in 1..Len(listeners) :
       underBuildDirectory(listeners[i].path) /\ listeners[i].during = {}

\* C36: the handling of every hot-reload event for a path outside the build
\* directory ends with exactly one dispatch of hmrRebuildEventName, and when
\* the event started a rebuild the dispatch comes only after that rebuild has
\* completed successfully
C36_OneDispatchPerHandledEvent ==
  (withWritePermission /\ surface = "ready") =>
    /\ \A i \in 1..Len(listeners) :
         /\ listeners[i].pc \in {"done", "threw"} => listeners[i].pc = "done"
         /\ (listeners[i].pc = "done" /\ listeners[i].started # 0) =>
              runs[listeners[i].started].pc = "fulfilled"
    /\ dispatched = Cardinality({i \in 1..Len(listeners) : listeners[i].pc = "done"})

\* C37: across the redirects of one client call the action runs at most
\* once, and only for a first request that is a POST accepting
\* text/x-component without the x-rsc-redirected parameter; the Location of a
\* relative redirect carries that parameter, so the request issued again does
\* not run the action and the target is rendered
C37_ActionRunsAtMostOncePerCall ==
  http.pc # "idle" =>
    /\ http.executed <= 1
    /\ http.executed = 1 => runsAction(http.first)
    /\ http.resp.kind = "redirect" => Redirected \in http.resp.location.params
    /\ http.redirects > 0 => ~runsAction(http.req)
    /\ (http.pc = "settled" /\ http.redirects > 0) =>
         /\ http.resp.kind = "rendered"
         /\ http.resp.node = "/target"

\* C37 witness: the action of a call ran once and redirected with 307; the
\* POST issued again was answered with the rendered target
C37_Witness ==
  /\ http.pc = "settled"
  /\ http.executed = 1
  /\ http.redirects = 1
  /\ http.req.method = "POST"
  /\ http.resp.kind = "rendered"

\* the client modules of graph sh that a module not classified client
\* imports directly
ClientCrossingTargets(sh) ==
  {d \in Range(moduleSpecifiers(sh)) :
     /\ Directives[d] = "client"
     /\ \E o \in Range(moduleSpecifiers(sh)) :
          Directives[o] # "client" /\ d \in Range(DepsOf(sh, o))}

\* C38: the entry points of a full build are exactly the bootstrap modules,
\* the client modules imported directly by a module that is not client, and
\* the external pins, no module classified server, default or error being
\* added for a boundary; a context the run creates has exactly this set
C38_EntryPointsAreBootstrapClientTargetsExternals ==
  [][\A r \in RunIds :
       /\ runs'[r].w # <<>> =>
            Range(requiredEntryPoints(runs'[r].w[1].shape)) =
              Range(BootstrapModules)
                \cup ClientCrossingTargets(runs'[r].w[1].shape)
                \cup Range(External)
       /\ (CallsRebuild(r) /\ ~runs[r].useCacheContext) =>
            state'.esbuildContext[1].entryPoints =
              Range(BootstrapModules)
                \cup ClientCrossingTargets(runs[r].w[1].shape)
                \cup Range(External)]_vars

\* C38 witness: a full build of the graph with a server, an unclassifiable
\* and a default dependency of main and a client dependency of the server
\* module has created its context
C38_Witness ==
  \E r \in RunIds :
    /\ runs[r].pc = "refs"
    /\ runs[r].w[1].shape = "s4"
    /\ runs[r].fx.contexts = 1

====
